---- MODULE Spec2Model ----
(***************************************************************************)
(* Per-index migration pipeline of the Elasticsearch migration tool:       *)
(* discovery, schema provisioning, remote reindex with task polling,       *)
(* validation, alias cutover (my_migration), and the snapshot/restore      *)
(* driver (SnapShotMigration).  Every remote call is a step whose outcome  *)
(* (success, ElasticsearchException, other exception) is chosen by the     *)
(* environment.                                                            *)
(***************************************************************************)
EXTENDS Integers, Sequences, FiniteSets, TLC

\* ---------------------------------------------------------------- bounds
NumAliases == 2
MaxPolls == 2
MaxFailures == 1
DocCount == 1
MaxCatalog == 2
MaxNameLen == 2
MaxPatternLen == 2
MaxTemplates == 2

\* ------------------------------------------------------------ the clusters
\* An index name is the sequence of its characters.  The source catalog of
\* the migration runs as cat.indices returns it, in catalog order: a system
\* index and two user indices.
Catalog == << <<".", "k">>, <<"o">>, <<"l">> >>
Indices == {<<"o">>, <<"l">>}
Aliases == 1..NumAliases
Mappings == {"m1", "m2"}

\* The source data is frozen during a migration: every source index holds
\* DocCount documents under mapping "m1".
srcCount(i) == DocCount
srcMappings(i) == "m1"

\* The sets of aliases a source index starts with.
AliasSets == {{}, Aliases}

\* The keys of an index's settings, each the sequence of its characters:
\* the three the cluster assigns, an ordinary setting, and the flat form of
\* the creation version.
UUID == <<"u", "u", "i", "d">>
VERSION == <<"v", "e", "r", "s", "i", "o", "n">>
PROVIDED_NAME == <<"p", "r", "o", "v", "i", "d", "e", "d", "_", "n", "a", "m", "e">>
CODEC == <<"c", "o", "d", "e", "c">>
VERSION_CREATED == VERSION \o <<".", "c", "r", "e", "a", "t", "e", "d">>
SettingKeys == {UUID, VERSION, PROVIDED_NAME, CODEC, VERSION_CREATED}

\* The settings of the indices and templates of the migration runs.
LiveSettings == {UUID, VERSION, PROVIDED_NAME, CODEC}
TemplateSettings == {CODEC}

\* An index template of the source cluster: its glob patterns, the settings
\* keys, mappings and aliases of its "template" section, and whether that
\* section has a "settings" key at all.
Templates ==
    { [index_patterns |-> ps, settings |-> TemplateSettings, mappings |-> m,
       aliases |-> al, hasSettings |-> TRUE] :
        ps \in {{<<"o">>}, {<<"*">>}}, m \in Mappings, al \in {{}, {1}} }
    \cup
    { [index_patterns |-> ps, settings |-> {}, mappings |-> "m1",
       aliases |-> {}, hasSettings |-> FALSE] :
        ps \in {{<<"o">>}, {<<"*">>}} }

TemplateLists == {<<>>} \cup { <<t>> : t \in Templates }

\* The command lines of a run: --index and --regex exclude each other.
RunArgs == { [index |-> <<>>, regex |-> <<>>],
             [index |-> <<"o">>, regex |-> <<>>],
             [index |-> <<>>, regex |-> <<"o">>] }

VARIABLES
    mode,         \* "reindex" (my_migration) or "snapshot" (SnapShotMigration)
    catalog,      \* source: the rows of cat.indices, in catalog order
    selection,    \* args.index (empty: not given)
    regex,        \* args.regex (empty: not given), a sequence of atoms
    indices,      \* main: the discovered list
    cur,          \* main: position of the for loop in indices
    pc,           \* the next call of the run
    migrated,     \* how many of the cluster-level migrators main has called
    templates,    \* source: index templates, in enumeration order
    srcSettings,  \* source: the keys of each index's settings["index"]
    provision,    \* create_index_if_no_template: the schema source it chose
                  \* (-1: none, 0: the live index, k: template k), the
                  \* create calls it issued with their body, the aliases put
    srcAliases,   \* source: aliases bound to each index
    dstExists,    \* destination: the destination index of each source index
    dstMappings,
    dstAliases,
    dstCount,
    restoredAs,   \* destination: the name each restored index was given
    polls,        \* migrate_index: polls that observed completed = false
    stats,        \* migrate_index: local stats (-1: unbound)
    status,       \* migrate_index: the last tasks.get response
    src_aliases,  \* the alias list handed to migrate_alias_between_clusters
    removeFailed, \* aliases whose delete_alias ended in another error
    reported,     \* the created count of the completion log line (-1: none)
    first,        \* what an earlier invocation of migrate_alias_between_clusters
                  \* with the same arguments left: whether it logged no
                  \* error, and the aliases of the two indices after it
    warned,       \* migrate_index: the failures warning was logged for the index
    outcome,      \* what each index's pipeline ended with
    docCountOk,   \* result of compare_doc_counts per index in this run
    mappingOk,    \* result of compare_mappings per index in this run
    provAliases,  \* aliases the provisioning step bound on the destination
    provCalls,    \* invocations of create_index_if_no_template per index
    creates,      \* successful create-index calls per index
    submitted,    \* whether the destination existed when reindex was called
    origAliases,  \* srcAliases when the first run started
    crashed,      \* the call before which the run was interrupted ("no": never),
                  \* and whether every remote call before it had succeeded
    clean         \* no remote call of this run has failed so far

vars == <<mode, first, catalog, restoredAs, provision, srcSettings, warned, selection, regex, indices, cur, pc, migrated, templates, srcAliases,
          dstExists, dstMappings, dstAliases, dstCount, polls, stats, status,
          src_aliases, removeFailed, reported, outcome, docCountOk, mappingOk,
          provAliases, provCalls, creates, submitted, origAliases, crashed, clean>>

source == <<templates, srcAliases, srcSettings>>
destination == <<dstExists, dstMappings, dstAliases, dstCount>>
task == <<polls, stats, status, reported>>
cutover == <<src_aliases, removeFailed>>
validation == <<docCountOk, mappingOk>>
history == <<provAliases, provCalls, creates, submitted, origAliases, crashed>>

NoBody == [settings |-> {}, mappings |-> "none", aliases |-> {}]
NoProvision == [tpl |-> -1, creates |-> 0, body |-> NoBody, puts |-> {}]

NoFirst == [called |-> FALSE, ok |-> FALSE, src |-> {}, dst |-> {}]

NoStatus == [completed |-> FALSE, created |-> -1, failures |-> 0]

\* The state of a run before its first call, on given source clusters.
InitRun ==
    /\ indices = <<>>
    /\ cur = 0
    /\ pc = "discover"
    /\ migrated = 0
    /\ dstExists = [i \in Indices |-> FALSE]
    /\ dstMappings = [i \in Indices |-> "none"]
    /\ dstAliases = [i \in Indices |-> {}]
    /\ dstCount = [i \in Indices |-> 0]
    /\ restoredAs = [i \in Indices |-> <<>>]
    /\ polls = 0
    /\ stats = -1
    /\ status = NoStatus
    /\ src_aliases = {}
    /\ removeFailed = {}
    /\ reported = -1
    /\ warned = FALSE
    /\ first = NoFirst
    /\ provision = NoProvision
    /\ outcome = [i \in Indices |-> "pending"]
    /\ docCountOk = [i \in Indices |-> "none"]
    /\ mappingOk = [i \in Indices |-> "none"]
    /\ provAliases = [i \in Indices |-> {}]
    /\ provCalls = [i \in Indices |-> 0]
    /\ creates = [i \in Indices |-> 0]
    /\ submitted = [i \in Indices |-> "no"]
    /\ origAliases = srcAliases
    /\ crashed = [at |-> "no", clean |-> TRUE]
    /\ clean = TRUE

InitCommon ==
    /\ catalog = Catalog
    /\ srcSettings = [i \in Indices |-> LiveSettings]
    /\ \E a \in RunArgs : selection = a.index /\ regex = a.regex
    /\ templates \in TemplateLists
    /\ srcAliases \in [Indices -> AliasSets]
    /\ InitRun

Init == InitCommon /\ mode = "reindex"

\* ---------------------------------------------------------------- discovery
\* idx["index"].startswith(".")
IsSystem(name) == Len(name) >= 1 /\ name[1] = "."

\* A listing that keeps every row of the catalog.
KeepsEveryName(name) == TRUE

NotSystem(name) == ~IsSystem(name)

\* [idx["index"] for idx in raw if not idx["index"].startswith(".")]: the
\* comprehension each of the three listing functions applies to the rows.
UserNames == SelectSeq(catalog, NotSystem)

\* list_indices: the non-system names, in catalog order; [] when the
\* catalog query raises ElasticsearchException.
list_indices(r) == IF r = "es_error" THEN <<>> ELSE UserNames

\* One atom of a regular expression against one character: "." is the
\* wildcard, "\\." the escaped dot, any other atom is a literal character.
AtomMatches(atom, c) ==
    IF atom = "." THEN TRUE
    ELSE IF atom = "\\." THEN c = "."
    ELSE atom = c

\* The pattern matches the characters of name that follow offset off.
MatchAt(pattern, name, off) ==
    /\ off + Len(pattern) <= Len(name)
    /\ \A k \in 1..Len(pattern) : AtomMatches(pattern[k], name[off + k])

\* A pattern applied at the beginning of the name only.
MatchAtStart(pattern, name) == MatchAt(pattern, name, 0)

\* compiled.search(idx): the pattern is tried at every offset of the name.
Search(pattern, name) == \E off \in 0..Len(name) : MatchAt(pattern, name, off)

\* list_indices_by_regex: the non-system names compiled.search finds a
\* match in; [] when the catalog query raises ElasticsearchException.
list_indices_by_regex(r, regex_pattern) ==
    LET Found(idx) == Search(regex_pattern, idx)
    IN IF r = "es_error" THEN <<>> ELSE SelectSeq(UserNames, Found)

\* list_specific_index: the non-system names equal to index_name; [] when
\* the catalog query raises ElasticsearchException.
list_specific_index(r, index_name) ==
    LET Same(idx) == idx = index_name
    IN IF r = "es_error" THEN <<>> ELSE SelectSeq(UserNames, Same)

\* A main that goes on whatever the discovery returned.
AfterDiscoveryUnchecked(ix) == "migrators"

\* main lines 64-66: an empty discovery ends the run before anything else.
AfterDiscovery(ix) == IF ix = <<>> THEN "exited" ELSE "migrators"

\* main step 1: args.index selects list_specific_index, else args.regex
\* selects list_indices_by_regex, else list_indices; the catalog query
\* succeeds or raises ElasticsearchException.
discover ==
    /\ pc = "discover"
    /\ \E r \in {"ok", "es_error"} :
        /\ indices' = IF selection # <<>> THEN list_specific_index(r, selection)
                      ELSE IF regex # <<>> THEN list_indices_by_regex(r, regex)
                      ELSE list_indices(r)
        /\ clean' = (clean /\ r = "ok")
    /\ pc' = AfterDiscovery(indices')
    /\ cur' = 0
    /\ UNCHANGED <<mode, first, catalog, restoredAs, provision, warned, selection, regex, migrated, source, destination,
                   task, cutover, outcome, validation, history>>

\* ------------------------------------------- the discovery functions alone
\* The characters of index names, the names, the catalogs of distinct names,
\* and the regular expressions the functions are applied to.
Chars == {".", "a"}
Atoms == {".", "\\.", "a"}
SeqsUpTo(S, n) == UNION { [1..k -> S] : k \in 0..n }
Names == SeqsUpTo(Chars, MaxNameLen) \ {<<>>}
Catalogs == { c \in SeqsUpTo(Names, MaxCatalog) :
                \A j, k \in 1..Len(c) : c[j] = c[k] => j = k }
Patterns == SeqsUpTo(Atoms, MaxPatternLen)

DiscoveryInit ==
    /\ catalog \in Catalogs
    /\ srcSettings = [i \in Indices |-> LiveSettings]
    /\ selection = <<>>
    /\ regex = <<>>
    /\ templates = <<>>
    /\ srcAliases = [i \in Indices |-> {}]
    /\ InitRun
    /\ mode = "reindex"

\* A call of the function: pc names it, indices holds what it returned.
Called(f, result, r) ==
    /\ pc = "discover"
    /\ pc' = f
    /\ indices' = result
    /\ clean' = (r = "ok")
    /\ UNCHANGED <<mode, first, catalog, restoredAs, provision, warned, cur, migrated, source, destination, task,
                   cutover, outcome, validation, history>>

call_list_indices ==
    \E r \in {"ok", "es_error"} :
       /\ Called("list_indices", list_indices(r), r)
       /\ UNCHANGED <<selection, regex>>

call_list_indices_by_regex ==
    \E r \in {"ok", "es_error"}, pattern \in Patterns :
       /\ Called("list_indices_by_regex", list_indices_by_regex(r, pattern), r)
       /\ regex' = pattern
       /\ UNCHANGED selection

call_list_specific_index ==
    \E r \in {"ok", "es_error"}, index_name \in Names :
       /\ Called("list_specific_index", list_specific_index(r, index_name), r)
       /\ selection' = index_name
       /\ UNCHANGED regex

DiscoveryNext ==
    \/ call_list_indices
    \/ call_list_indices_by_regex
    \/ call_list_specific_index

DiscoverySpec == DiscoveryInit /\ [][DiscoveryNext]_vars

\* The first call of the per-index part of each driver.
FirstStage == IF mode = "reindex" THEN "create_index_if_no_template"
              ELSE "trigger_snapshot"

\* The migrators main calls one after the other.
NumMigrators == 12

\* A main that a failing migrator ends.
AfterMigratorStops(n, result) ==
    IF result = "error" THEN "exited"
    ELSE IF n < NumMigrators THEN "migrators" ELSE FirstStage

\* Every migrator catches Exception and returns: main goes on to the next
\* migrator of its list, and after the last one to the indices.
AfterMigrator(n, result) == IF n < NumMigrators THEN "migrators" ELSE FirstStage

\* main step 2: the next of the twelve cluster-level migrators; its remote
\* calls succeed or fail.
cluster_migrations ==
    /\ pc = "migrators"
    /\ migrated < NumMigrators
    /\ \E result \in {"ok", "error"} :
          /\ migrated' = migrated + 1
          /\ clean' = (clean /\ result = "ok")
          /\ pc' = AfterMigrator(migrated', result)
    /\ cur' = IF pc' = FirstStage THEN 1 ELSE cur
    /\ UNCHANGED <<mode, first, catalog, restoredAs, provision, warned, selection, regex, indices, source, destination, task, cutover,
                   outcome, validation, history>>

Cur == indices[cur]


\* --------------------------------------------------------- the driver loop
\* migrate_index returns (normally) with outcome o for index i.
Return(i, o) ==
    /\ outcome' = [outcome EXCEPT ![i] = o]
    /\ pc' = "return"

\* An exception leaves migrate_index and main: the run is over.
Raise(i) ==
    /\ outcome' = [outcome EXCEPT ![i] = "raised"]
    /\ pc' = "raised"

\* The stage main runs for each index of the loop.
LoopStage == IF mode = "reindex" THEN "create_index_if_no_template"
             ELSE "post_restore_validations"

\* What main does when the loop over indices is exhausted: it logs
\* "Migration completed successfully", whatever the outcomes were.
AfterLoop == "finished"

\* main: the for loop takes the next index, or ends the run.
main_loop ==
    /\ pc = "return"
    /\ IF cur < Len(indices)
       THEN cur' = cur + 1 /\ pc' = LoopStage
       ELSE cur' = cur /\ pc' = AfterLoop
    /\ polls' = 0
    /\ stats' = -1
    /\ status' = NoStatus
    /\ reported' = -1
    /\ src_aliases' = {}
    /\ removeFailed' = {}
    /\ warned' = FALSE
    /\ provision' = NoProvision
    /\ UNCHANGED <<mode, first, catalog, restoredAs, selection, regex, indices, migrated, source, destination,
                   outcome, validation, history, clean>>

\* ------------------------------------------------------ schema provisioning
RECURSIVE fnmatch(_, _)
\* fnmatch.fnmatch(index_name, pat): "*" matches any run of characters,
\* "?" any one character, another character itself.
fnmatch(name, pat) ==
    IF pat = <<>> THEN name = <<>>
    ELSE IF Head(pat) = "*"
    THEN \E k \in 0..Len(name) :
            fnmatch(SubSeq(name, k + 1, Len(name)), Tail(pat))
    ELSE /\ name # <<>>
         /\ Head(pat) = "?" \/ Head(pat) = Head(name)
         /\ fnmatch(Tail(name), Tail(pat))

\* any(fnmatch.fnmatch(index_name, pat) for pat in patterns)
TemplateMatches(tpl, i) == \E pat \in tpl.index_patterns : fnmatch(i, pat)

\* The first template, in enumeration order, with a pattern matching the
\* index name (0: none).
FirstMatch(i) ==
    LET ms == {k \in 1..Len(templates) : TemplateMatches(templates[k], i)}
    IN IF ms = {} THEN 0 ELSE CHOOSE k \in ms : \A j \in ms : k <= j

\* k.startswith(prefix)
StartsWith(k, prefix) ==
    Len(prefix) <= Len(k) /\ SubSeq(k, 1, Len(prefix)) = prefix

\* A filter that keeps every key.
StripNothing(settings) == settings

\* {k: v for k, v in ... if not k.startswith(("version", "uuid",
\* "provided_name"))}: the values are copied as they are.
StripMetadata(settings) ==
    {k \in settings :
        ~\E prefix \in {VERSION, UUID, PROVIDED_NAME} : StartsWith(k, prefix)}

\* target_client.indices.create: Conflict when the index already exists.
CreateOutcomes(i) == IF dstExists[i] THEN {"conflict"} ELSE {"ok", "es_error"}

PutAliasesAlways(c) == TRUE

\* Step 3 (get the source aliases, put each on the destination) is reached
\* only when the create call of step 2 did not raise.
PutAliasesRuns(c) == c = "ok"

\* The destination after a create call with outcome c and body mappings m,
\* with the aliases al bound by the create body or by put_alias.
Provision(i, c, m, al) ==
    /\ dstExists' = [dstExists EXCEPT ![i] = @ \/ c = "ok"]
    /\ dstMappings' = [dstMappings EXCEPT ![i] = IF c = "ok" THEN m ELSE @]
    /\ dstCount' = [dstCount EXCEPT ![i] = IF c = "ok" THEN 0 ELSE @]
    /\ dstAliases' = [dstAliases EXCEPT ![i] = IF c = "ok" THEN al ELSE @ \cup al]
    /\ provAliases' = [provAliases EXCEPT ![i] = @ \cup al]
    /\ creates' = [creates EXCEPT ![i] = IF c = "ok" THEN @ + 1 ELSE @]

\* The except clause of create_index_if_no_template catches
\* ElasticsearchException only and returns normally.
ProvisionAbsorbs(exc) == exc = "es_error"

\* The put_alias loop binds the aliases in order and stops at the first
\* call that raises: the aliases up to k are bound.
PutPrefix(al, k) == {a \in al : a <= k}

create_index_if_no_template ==
    /\ pc = "create_index_if_no_template"
    /\ provCalls' = [provCalls EXCEPT ![Cur] = @ + 1]
    /\ LET i == Cur
           m == FirstMatch(i)
       IN
       \/ \* get_index_template raises ElasticsearchException
          /\ Provision(i, "none", "none", {})
          /\ provision' = NoProvision
          /\ clean' = FALSE
          /\ pc' = "reindex"
          /\ UNCHANGED outcome
       \/ \* a matching template without "settings": tmpl["settings"] raises
          \* KeyError, which the except clause does not catch
          /\ m # 0
          /\ ~templates[m].hasSettings
          /\ Provision(i, "none", "none", {})
          /\ provision' = [NoProvision EXCEPT !.tpl = m]
          /\ clean' = FALSE
          /\ IF ProvisionAbsorbs("key_error")
             THEN pc' = "reindex" /\ UNCHANGED outcome
             ELSE Raise(i)
       \/ \* template-derived: one create call carrying the template's aliases
          /\ m # 0
          /\ templates[m].hasSettings
          /\ provision' = [tpl |-> m, creates |-> 1, puts |-> {},
                            body |-> [settings |-> StripMetadata(templates[m].settings),
                                      mappings |-> templates[m].mappings,
                                      aliases |-> templates[m].aliases]]
          /\ \E c \in CreateOutcomes(i) :
                /\ Provision(i, c, templates[m].mappings,
                             IF c = "ok" THEN templates[m].aliases ELSE {})
                /\ clean' = (clean /\ c \in {"ok", "conflict"})
          /\ pc' = "reindex"
          /\ UNCHANGED outcome
       \/ \* direct copy: get_settings or get_mapping raises
          /\ m = 0
          /\ Provision(i, "none", "none", {})
          /\ provision' = [NoProvision EXCEPT !.tpl = 0]
          /\ clean' = FALSE
          /\ pc' = "reindex"
          /\ UNCHANGED outcome
       \/ \* direct copy: create, then get the source aliases and put each
          /\ m = 0
          /\ \E c \in CreateOutcomes(i), g \in {"ok", "es_error"}, k \in 0..NumAliases :
                LET put == IF PutAliasesRuns(c) /\ g = "ok"
                           THEN PutPrefix(srcAliases[i], k) ELSE {}
                IN /\ Provision(i, c, srcMappings(i), put)
                   /\ provision' = [tpl |-> 0, creates |-> 1, puts |-> put,
                                     body |-> [settings |-> StripMetadata(srcSettings[i]),
                                               mappings |-> srcMappings(i),
                                               aliases |-> {}]]
                   /\ clean' = (clean /\ c \in {"ok", "conflict"}
                                /\ (c = "ok" => g = "ok" /\ put = srcAliases[i]))
          /\ pc' = "reindex"
          /\ UNCHANGED outcome
    /\ UNCHANGED <<mode, first, catalog, restoredAs, warned, selection, regex, indices, cur, migrated, source, task, cutover,
                   validation, submitted, origAliases, crashed>>


\* ----------------------------------------------------- provisioning alone
\* The templates and live settings create_index_if_no_template is applied
\* to: templates that match the index by name, by wildcard or not at all,
\* with and without a "settings" section.
TemplateUniverse ==
    { [index_patterns |-> {pat}, settings |-> ss, mappings |-> m,
       aliases |-> {1}, hasSettings |-> TRUE] :
        pat \in {<<"o">>, <<"*">>, <<"l">>}, ss \in {TemplateSettings, SettingKeys},
        m \in Mappings }
    \cup
    { [index_patterns |-> {pat}, settings |-> {}, mappings |-> "m1",
       aliases |-> {}, hasSettings |-> FALSE] :
        pat \in {<<"o">>, <<"*">>, <<"l">>} }

SettingsChoices == {{CODEC}, LiveSettings, SettingKeys}

\* A run with --index o on a source with any of these templates and settings.
ProvisionInit ==
    /\ catalog = Catalog
    /\ selection = <<"o">>
    /\ regex = <<>>
    /\ templates \in SeqsUpTo(TemplateUniverse, MaxTemplates)
    /\ \E ss \in SettingsChoices : srcSettings = [i \in Indices |-> ss]
    /\ \E al \in AliasSets : srcAliases = [i \in Indices |-> al]
    /\ InitRun
    /\ mode = "reindex"

ProvisionNext ==
    \/ discover
    \/ cluster_migrations
    \/ create_index_if_no_template

ProvisionSpec == ProvisionInit /\ [][ProvisionNext]_vars

\* ------------------------------------------------------------ the transfer
\* A driver that takes a failed call of the transfer for its completion.
TransportErrorCompletes(i) == pc' = "compare_doc_counts" /\ UNCHANGED outcome

\* "except exceptions.TransportError" / "except Exception" of migrate_index:
\* the error is logged and migrate_index returns.
TransportErrorCaught(i) == Return(i, "error")

\* target_client.reindex(wait_for_completion=False).  Elasticsearch creates
\* a missing destination index itself, with dynamically derived mappings.
reindex ==
    /\ pc = "reindex"
    \* create_index_if_no_template has returned: its locals are gone
    /\ provision' = NoProvision
    /\ LET i == Cur IN
       \/ \* the task is started
          /\ submitted' = [submitted EXCEPT ![i] =
                              IF dstExists[i] THEN "dst_present" ELSE "dst_absent"]
          /\ dstExists' = [dstExists EXCEPT ![i] = TRUE]
          /\ \E m \in Mappings :
                dstMappings' = [dstMappings EXCEPT ![i] = IF dstExists[i] THEN @ ELSE m]
          /\ pc' = "tasks_get"
          /\ UNCHANGED <<outcome, clean>>
       \/ \* the call raises: logged by the except clauses of migrate_index
          /\ TransportErrorCaught(i)
          /\ clean' = FALSE
          /\ UNCHANGED <<submitted, dstExists, dstMappings>>
    /\ UNCHANGED <<mode, first, catalog, restoredAs, warned, selection, regex, indices, cur, migrated, source, dstAliases,
                   dstCount, task, cutover, validation, provAliases, provCalls,
                   creates, origAliases, crashed>>

\* The completion log line reads the local stats, which only a poll that
\* observed completed = false assigns.
StatsBound == stats # -1

\* What the completion log line reports as the created count.
ReportedCreated == stats

\* A loop that is left after any poll.
AfterPollBreaks(completed) == "compare_doc_counts"

\* A loop that gives the transfer up at a poll that finds it incomplete.
AfterPollGivesUp(completed) == IF completed THEN "compare_doc_counts" ELSE "return"

\* A pipeline that returns after its first poll and leaves the task running.
AfterPollDetaches(completed) == "return"

\* A loop that is never left.
AfterPollNeverBreaks(completed) == "tasks_get"

\* "if status.get("completed"): break", otherwise sleep and poll again; the
\* statement after the loop leads to compare_doc_counts.
AfterPoll(completed) == IF completed THEN "compare_doc_counts" ELSE "tasks_get"

\* A pipeline that a non-empty failure list ends.
FailuresAbort(f) == f > 0

\* "if failures: logger.warning(...)": the failure list is logged, nothing
\* else depends on it.
FailuresFatal(f) == FALSE

\* One iteration of the polling loop: tasks.get, then break or sleep.
tasks_get ==
    /\ pc = "tasks_get"
    /\ LET i == Cur IN
       \/ \* completed = false: stats is assigned, the loop sleeps and polls again
          /\ polls < MaxPolls
          /\ \E c \in 0..srcCount(i) :
                /\ c >= stats
                /\ stats' = c
                /\ status' = [completed |-> FALSE, created |-> c, failures |-> 0]
          /\ polls' = polls + 1
          /\ pc' = AfterPoll(FALSE)
          /\ UNCHANGED <<reported, outcome, dstCount, clean, warned>>
       \/ \* completed = true: f failures, of which lost documents are missing
          \E f \in 0..MaxFailures, lost \in 0..MaxFailures :
             /\ lost <= f
             /\ status' = [completed |-> TRUE, created |-> srcCount(i) - lost,
                           failures |-> f]
             /\ dstCount' = [dstCount EXCEPT ![i] = srcCount(i) - lost]
             /\ clean' = (clean /\ f = 0)
             /\ UNCHANGED <<polls, stats>>
             /\ warned' = (f > 0)
             /\ IF f > 0 /\ FailuresFatal(f)
                THEN /\ reported' = -1
                     /\ Return(i, "error")
                ELSE IF f > 0
                THEN \* warning only
                     /\ reported' = -1
                     /\ pc' = AfterPoll(TRUE)
                     /\ UNCHANGED outcome
                ELSE IF StatsBound
                THEN /\ reported' = ReportedCreated
                     /\ pc' = AfterPoll(TRUE)
                     /\ UNCHANGED outcome
                ELSE \* UnboundLocalError, caught by "except Exception"
                     /\ reported' = -1
                     /\ Return(i, "error")
       \/ \* the poll call raises
          /\ TransportErrorCaught(i)
          /\ clean' = FALSE
          /\ UNCHANGED <<polls, stats, status, reported, dstCount, warned>>
    /\ UNCHANGED <<mode, first, catalog, restoredAs, provision, selection, regex, indices, cur, migrated, source, dstExists,
                   dstMappings, dstAliases, cutover, validation, history>>

\* ------------------------------------------------------------ index names
\* RENAME_REPLACEMENT = "new_\\1": the characters of the template, "\\1"
\* being the two characters backslash and 1.
RENAME_REPLACEMENT == <<"n", "e", "w", "_", "\\1">>

\* RENAME_PATTERN = "^(.*)$" against an index name (a single line): one
\* match, the whole name, which is also its group 1.
Group1(name) == name

RECURSIVE Expand(_, _, _)
\* The replacement template expanded for one match.  In the syntax of
\* Python's re module "\\1" is the text of group 1; in the syntax of
\* java.util.regex a backslash quotes the character after it, so "\\1" is
\* the character 1 (group 1 is written $1).
Expand(template, group, syntax) ==
    IF template = <<>> THEN <<>>
    ELSE (IF Head(template) = "\\1"
          THEN (IF syntax = "python" THEN group ELSE <<"1">>)
          ELSE <<Head(template)>>)
         \o Expand(Tail(template), group, syntax)

\* re.sub(RENAME_PATTERN, RENAME_REPLACEMENT, original_index)
re_sub(replacement, original_index) ==
    Expand(replacement, Group1(original_index), "python")

\* main: new_index, the destination name handed to post_restore_validations
\* and handle_alias_migration.
new_index(original_index) == re_sub(RENAME_REPLACEMENT, original_index)

\* The body of the restore request carries rename_pattern and
\* rename_replacement as given; the target cluster applies them with its
\* own regular-expression engine.
Renamed(i, syntax) == Expand(RENAME_REPLACEMENT, Group1(i), syntax)

\* The requests of the snapshot run that name new_index reach an index only
\* if the restore gave the restored index that name.
TargetHas(i) == mode = "snapshot" => restoredAs[i] = new_index(i)

\* ------------------------------------------------------------- validation
\* validation_utils.compare_doc_counts: a failing count query gives False.
DocCountsMatch(i, r) == r = "ok" /\ srcCount(i) = dstCount[i]

\* A compare_mappings whose except clause returns True.
MappingsMatchOrError(i, r) == r = "es_error" \/ srcMappings(i) = dstMappings[i]

\* validation_utils.compare_mappings: a failing mapping query gives False.
MappingsMatch(i, r) == r = "ok" /\ srcMappings(i) = dstMappings[i]

AfterDocCountsUngated(ok) == "compare_mappings"

AfterMappingsUngated(ok) == "get_alias"

\* migrate_index goes on to compare_mappings only when the counts match.
AfterDocCounts(ok) == IF ok THEN "compare_mappings" ELSE "return"

\* migrate_index goes on to the alias cutover only when the mappings match.
AfterMappings(ok) == IF ok THEN "get_alias" ELSE "return"

Verdict(ok) == IF ok THEN "pass" ELSE "fail"

compare_doc_counts ==
    /\ pc = "compare_doc_counts"
    /\ \E r \in {"ok", "es_error"} :
          LET ok == DocCountsMatch(Cur, r) IN
          /\ docCountOk' = [docCountOk EXCEPT ![Cur] = Verdict(ok)]
          /\ pc' = AfterDocCounts(ok)
          /\ outcome' = [outcome EXCEPT ![Cur] =
                            IF pc' = "return" THEN "count_mismatch" ELSE @]
          /\ clean' = (clean /\ r = "ok")
    \* the locals of the polling loop are not read again
    /\ polls' = 0
    /\ stats' = -1
    /\ status' = NoStatus
    /\ reported' = -1
    /\ UNCHANGED <<mode, first, catalog, restoredAs, provision, warned, selection, regex, indices, cur, migrated, source, destination,
                   cutover, mappingOk, history>>

compare_mappings ==
    /\ pc = "compare_mappings"
    /\ \E r \in {"ok", "es_error"} :
          LET ok == MappingsMatch(Cur, r) IN
          /\ mappingOk' = [mappingOk EXCEPT ![Cur] = Verdict(ok)]
          /\ pc' = AfterMappings(ok)
          /\ outcome' = [outcome EXCEPT ![Cur] =
                            IF pc' = "return" THEN "mapping_mismatch" ELSE @]
          /\ clean' = (clean /\ r = "ok")
    /\ UNCHANGED <<mode, first, catalog, restoredAs, provision, warned, selection, regex, indices, cur, migrated, source, destination,
                   task, cutover, docCountOk, history>>

\* ----------------------------------------------------------- alias cutover
\* source_client.indices.get_alias: the aliases of the source index; the
\* cutover is called only for a non-empty list.
get_alias ==
    /\ pc = "get_alias"
    /\ \/ /\ src_aliases' = srcAliases[Cur]
          /\ IF src_aliases' # {}
             THEN pc' = "delete_alias" /\ UNCHANGED outcome
             ELSE Return(Cur, "no_alias")
          /\ UNCHANGED clean
       \/ \* the call raises: caught by the except clauses of the caller
          /\ Return(Cur, "error")
          /\ clean' = FALSE
          /\ UNCHANGED src_aliases
    /\ UNCHANGED <<mode, first, catalog, restoredAs, provision, warned, selection, regex, indices, cur, migrated, source, destination,
                   task, removeFailed, validation, history>>

\* source_client.indices.delete_alias: NotFoundError when the alias is not
\* bound to the index; otherwise it removes the binding or fails otherwise.
DeleteOutcomes(i, a) == IF a \in srcAliases[i] THEN {"ok", "error"}
                        ELSE {"not_found", "error"}

\* migrate_alias_between_clusters step 1: delete_alias for every alias of
\* the list; each exception is caught inside the loop.  failed are the
\* aliases whose call ended in an error other than NotFoundError.
\* A loop without the "except exceptions.NotFoundError: pass" clause: the
\* general except clause logs the error.
NotFoundLogged(a) == FALSE

\* "except exceptions.NotFoundError: pass".
NotFoundIgnored(a) == TRUE

\* The aliases for which the loop logged an error, given those whose call
\* failed otherwise.
Logged(i, al, failed) ==
    failed \cup {a \in al : a \notin srcAliases[i] /\ ~NotFoundIgnored(a)}

delete_alias ==
    /\ pc = "delete_alias"
    /\ \E failed \in SUBSET src_aliases :
          /\ \A a \in failed : "error" \in DeleteOutcomes(Cur, a)
          /\ srcAliases' = [srcAliases EXCEPT ![Cur] = @ \ (src_aliases \ failed)]
          /\ removeFailed' = Logged(Cur, src_aliases, failed)
          /\ clean' = (clean /\ failed = {})
    /\ pc' = "update_aliases"
    /\ UNCHANGED <<mode, first, catalog, restoredAs, provision, warned, selection, regex, indices, cur, migrated, templates, srcSettings, destination,
                   task, src_aliases, outcome, validation, history>>

AddActionsFirstOnly(i, al) == {a \in al : \A b \in al : a <= b}

\* An update_aliases request that carries no action at all.
AddActionsNone(i, al) == {}

\* The add actions of the one update_aliases request.
AddActions(i, al) == al

\* migrate_alias_between_clusters step 2: one update_aliases request with
\* an add action per alias; an exception is caught and logged.
update_aliases ==
    /\ pc = "update_aliases"
    /\ \/ /\ dstExists[Cur]
          /\ TargetHas(Cur)
          /\ dstAliases' = [dstAliases EXCEPT ![Cur] = @ \cup AddActions(Cur, src_aliases)]
          /\ Return(Cur, "cutover")
          /\ UNCHANGED clean
       \/ /\ Return(Cur, "add_failed")
          /\ clean' = FALSE
          /\ UNCHANGED dstAliases
    /\ UNCHANGED <<mode, first, catalog, restoredAs, provision, warned, selection, regex, indices, cur, migrated, source, dstExists,
                   dstMappings, dstCount, task, cutover, validation, history>>

\* migrate_alias_between_clusters is called again with the arguments of
\* the call that has just returned.
reinvoke ==
    /\ pc = "return"
    /\ outcome[Cur] \in {"cutover", "add_failed"}
    /\ ~first.called
    /\ first' = [called |-> TRUE,
                 ok |-> outcome[Cur] = "cutover" /\ removeFailed = {},
                 src |-> srcAliases[Cur], dst |-> dstAliases[Cur]]
    /\ pc' = "delete_alias"
    /\ outcome' = [outcome EXCEPT ![Cur] = "pending"]
    /\ removeFailed' = {}
    /\ UNCHANGED <<mode, catalog, restoredAs, provision, warned, selection, regex,
                   indices, cur, migrated, source, destination, task,
                   src_aliases, validation, history, clean>>

\* ------------------------------------------------- the remote-reindex run
Next ==
    \/ discover
    \/ cluster_migrations
    \/ create_index_if_no_template
    \/ reindex
    \/ tasks_get
    \/ compare_doc_counts
    \/ compare_mappings
    \/ get_alias
    \/ delete_alias
    \/ update_aliases
    \/ main_loop

Spec == Init /\ [][Next]_vars


\* ------------------------------------------------- interruption and re-run
\* The tool keeps no state of its own: a run that is interrupted inside an
\* index's pipeline is recovered by running main again for that index
\* (--index), which starts from discovery with fresh locals.  The
\* interruptions followed here are those right after provisioning, right
\* after the transfer, and between the two steps of the cutover.
InterruptPoints == {"reindex", "compare_doc_counts", "update_aliases"}

rerun ==
    /\ crashed.at = "no"
    /\ mode = "reindex"
    /\ pc \in InterruptPoints
    /\ crashed' = [at |-> pc, clean |-> clean]
    /\ selection' = Cur
    /\ regex' = <<>>
    /\ warned' = FALSE
    /\ provision' = NoProvision
    /\ UNCHANGED <<catalog, restoredAs>>
    /\ indices' = <<>>
    /\ cur' = 0
    /\ pc' = "discover"
    /\ migrated' = 0
    /\ polls' = 0
    /\ stats' = -1
    /\ status' = NoStatus
    /\ reported' = -1
    /\ src_aliases' = {}
    /\ removeFailed' = {}
    /\ outcome' = [i \in Indices |-> "pending"]
    /\ docCountOk' = [i \in Indices |-> "none"]
    /\ mappingOk' = [i \in Indices |-> "none"]
    /\ submitted' = [i \in Indices |-> "no"]
    /\ clean' = TRUE
    /\ UNCHANGED <<mode, first, source, destination, provAliases, provCalls, creates,
                   origAliases>>

\* A run with --index o.
IndexRunInit ==
    /\ catalog = Catalog
    /\ srcSettings = [i \in Indices |-> LiveSettings]
    /\ selection = <<"o">>
    /\ regex = <<>>
    /\ templates \in TemplateLists
    /\ srcAliases \in [Indices -> AliasSets]
    /\ InitRun
    /\ mode = "reindex"

\* migrate_index and main are sequential code whose remote calls all carry
\* a request timeout: a call that can be made is made, and it returns or
\* raises.
\* The pipeline of one index is followed: the run is one with --index o.
FairSpec == IndexRunInit /\ [][Next]_vars /\ WF_vars(Next)

\* The run with --index o, whose cutover may be invoked a second time.
CutoverNext == Next \/ reinvoke

CutoverSpec == IndexRunInit /\ [][CutoverNext]_vars

RerunNext == Next \/ rerun

RerunSpec == IndexRunInit /\ [][RerunNext]_vars


\* ------------------------------------------------ the snapshot/restore run
SnapInit == InitCommon /\ mode = "snapshot"

\* main step 3: trigger_snapshot returns None when snapshot.create raises,
\* and main then returns; check_snapshot_status only logs.
\* main lines 82-85: "if not snapshot_resp: ... return".
AfterTriggerSnapshot(snapshot_resp) ==
    IF snapshot_resp THEN "restore_snapshot" ELSE "aborted"

\* A main that goes on to the per-index loop whatever restore_snapshot returned.
AfterRestoreSnapshotUnchecked(restore_resp) == "post_restore_validations"

\* main lines 102-104: "if not restore_resp: ... return".
AfterRestoreSnapshot(restore_resp) ==
    IF restore_resp THEN "post_restore_validations" ELSE "aborted"

trigger_snapshot ==
    /\ pc = "trigger_snapshot"
    /\ \/ pc' = AfterTriggerSnapshot(TRUE) /\ UNCHANGED clean
       \/ pc' = AfterTriggerSnapshot(FALSE) /\ clean' = FALSE
    /\ UNCHANGED <<mode, first, catalog, restoredAs, provision, warned, selection, regex, indices, cur, migrated, source, destination,
                   task, cutover, outcome, validation, history>>

IndexSet == {indices[k] : k \in 1..Len(indices)}

\* restore_snapshot: the indices of the snapshot are restored under the
\* names the target cluster derives from the rename rule of the request,
\* with the mappings and aliases they had on the source; short are the
\* indices restored with documents missing.  A restore that fails, as one
\* that would give two indices the same name does, returns None and main
\* returns.
restore_snapshot ==
    /\ pc = "restore_snapshot"
    /\ \/ /\ \E short \in SUBSET IndexSet :
                dstCount' = [i \in Indices |->
                               IF i \in short THEN srcCount(i) - 1
                               ELSE IF i \in IndexSet THEN srcCount(i)
                               ELSE dstCount[i]]
          /\ \E syntax \in {"python", "java"} :
                /\ \A i, j \in IndexSet :
                      Renamed(i, syntax) = Renamed(j, syntax) => i = j
                /\ restoredAs' = [i \in Indices |->
                                    IF i \in IndexSet THEN Renamed(i, syntax)
                                    ELSE restoredAs[i]]
          /\ dstExists' = [i \in Indices |-> dstExists[i] \/ i \in IndexSet]
          /\ dstMappings' = [i \in Indices |->
                               IF i \in IndexSet THEN srcMappings(i) ELSE dstMappings[i]]
          /\ dstAliases' = [i \in Indices |->
                               IF i \in IndexSet THEN srcAliases[i] ELSE dstAliases[i]]
          /\ provAliases' = [i \in Indices |->
                               IF i \in IndexSet THEN srcAliases[i] ELSE provAliases[i]]
          /\ pc' = AfterRestoreSnapshot(TRUE)
          /\ UNCHANGED clean
       \/ /\ pc' = AfterRestoreSnapshot(FALSE)
          /\ clean' = FALSE
          /\ UNCHANGED <<destination, provAliases, restoredAs>>
    /\ UNCHANGED <<mode, first, catalog, provision, warned, selection, regex, indices, cur, migrated,
                   source, task, cutover, outcome, validation, provCalls,
                   creates, submitted, origAliases, crashed>>

\* main step 4: whatever post_restore_validations returned, main goes on to
\* handle_alias_migration for the index.
AfterPostRestoreValidations(ok) == "handle_alias_migration"

\* post_restore_validations: compare_doc_counts, then (only if it passed)
\* compare_mappings.
post_restore_validations ==
    /\ pc = "post_restore_validations"
    /\ \E rc \in {"ok", "es_error"}, rm \in {"ok", "es_error"} :
          LET cok == DocCountsMatch(Cur, rc)
              mok == MappingsMatch(Cur, rm)
          IN /\ (rc = "ok" \/ rm = "ok") => TargetHas(Cur)
             /\ docCountOk' = [docCountOk EXCEPT ![Cur] = Verdict(cok)]
             /\ mappingOk' = [mappingOk EXCEPT ![Cur] =
                                 IF cok THEN Verdict(mok) ELSE "none"]
             /\ pc' = AfterPostRestoreValidations(cok /\ mok)
             /\ clean' = (clean /\ rc = "ok" /\ (cok => rm = "ok"))
    /\ UNCHANGED <<mode, first, catalog, restoredAs, provision, warned, selection, regex, indices, cur, migrated, source, destination,
                   task, cutover, outcome, history>>

\* handle_alias_migration: the aliases of the source index are read and, if
\* there are any, handed to migrate_alias_between_clusters; an
\* ElasticsearchException is caught and logged.
handle_alias_migration ==
    /\ pc = "handle_alias_migration"
    /\ \/ /\ src_aliases' = srcAliases[Cur]
          /\ IF src_aliases' # {}
             THEN pc' = "delete_alias" /\ UNCHANGED outcome
             ELSE Return(Cur, "no_alias")
          /\ UNCHANGED clean
       \/ /\ Return(Cur, "error")
          /\ clean' = FALSE
          /\ UNCHANGED src_aliases
    /\ UNCHANGED <<mode, first, catalog, restoredAs, provision, warned, selection, regex, indices, cur, migrated, source, destination,
                   task, removeFailed, validation, history>>

SnapNext ==
    \/ discover
    \/ cluster_migrations
    \/ trigger_snapshot
    \/ restore_snapshot
    \/ post_restore_validations
    \/ handle_alias_migration
    \/ delete_alias
    \/ update_aliases
    \/ main_loop

SnapSpec == SnapInit /\ [][SnapNext]_vars


\* ================================================================ claims
Validated(i) == docCountOk[i] = "pass" /\ mappingOk[i] = "pass"

\* The cutover (migrate_alias_between_clusters) is running for index i.
InCutover(i) == pc \in {"delete_alias", "update_aliases"} /\ Cur = i

CutoverRan(i) == outcome[i] \in {"cutover", "add_failed"}

\* C1: in remote-reindex mode migrate_alias_between_clusters is invoked for
\* an index only if compare_doc_counts and compare_mappings both passed for
\* it in this run; without both, the cutover issues no source-side removal
\* (the source aliases are as they were) and no update_aliases request.
C1_StrictAndGate ==
    \A i \in Indices :
        /\ (InCutover(i) \/ CutoverRan(i)) => Validated(i)
        /\ ~Validated(i) => srcAliases[i] = origAliases[i]

\* C1 witness: the counts matched, the mappings differed, and the pipeline
\* of an index with aliases returned without touching them.
C1_Witness ==
    \E i \in Indices :
        /\ pc = "return" /\ Cur = i
        /\ docCountOk[i] = "pass" /\ mappingOk[i] = "fail"
        /\ outcome[i] = "mapping_mismatch"
        /\ srcAliases[i] # {}

\* C2: in snapshot/restore mode the cutover is never invoked for an index
\* whose post_restore_validations did not pass.
C2_SnapshotGate ==
    \A i \in Indices :
        (pc \in {"delete_alias", "update_aliases"} /\ indices[cur] = i) => Validated(i)

\* C3 (as stated): an alias is bound to a destination index only if that
\* index has passed both validation checks.
C3_BoundOnlyIfValidated ==
    \A i \in Indices : dstAliases[i] # {} => Validated(i)

\* C3 (amended): an alias bound to a destination index that has not passed
\* both validation checks was bound by the provisioning step (the create
\* body of the template path, put_alias of the direct-copy path); the
\* transfer binds none and the cutover binds only after both checks passed.
C3_BoundByProvisioningOrValidated ==
    \A i \in Indices : (dstAliases[i] \ provAliases[i]) # {} => Validated(i)

\* C3 witness: provisioning bound an alias to a destination index whose
\* validation then failed.
C3_Witness ==
    \E i \in Indices :
        /\ provAliases[i] # {}
        /\ dstAliases[i] = provAliases[i]
        /\ docCountOk[i] = "fail"
        /\ pc = "return"

\* migrate_alias_between_clusters has finished for the current index with
\* its destination-side add having succeeded.
CutoverSucceeded == pc = "return" /\ outcome[Cur] = "cutover"

\* C4 (as stated): after a cutover whose add succeeded, every alias of the
\* source index is bound to the destination index and none is bound to the
\* source index any more, whatever the delete_alias calls ended with.
C4_AllMoved ==
    CutoverSucceeded =>
        /\ src_aliases \subseteq dstAliases[Cur]
        /\ srcAliases[Cur] \cap src_aliases = {}

\* C4 (amended): after a cutover whose add succeeded, every alias of the
\* source index is bound to the destination index, and every alias whose
\* delete_alias call succeeded or reported not-found is no longer bound to
\* the source index.
C4_MovedUnlessDeleteFailed ==
    CutoverSucceeded =>
        /\ src_aliases \subseteq dstAliases[Cur]
        /\ srcAliases[Cur] \cap (src_aliases \ removeFailed) = {}

\* C4 witness: a cutover succeeded in which one delete_alias call failed
\* and another succeeded.
C4_Witness ==
    /\ CutoverSucceeded
    /\ removeFailed # {}
    /\ removeFailed # src_aliases

\* C5: no exception leaves migrate_index: the driver loop is never ended
\* by one.
C5_ErrorsNeverEscape == pc # "raised"

\* C6: the run reports success only if discovery found an index and every
\* discovered index passed validation and completed its cutover.
C6_SuccessOnlyIfAllCutOver ==
    pc = "finished" =>
        /\ indices # <<>>
        /\ \A i \in IndexSet : outcome[i] \in {"cutover", "no_alias"}

\* C7: the reindex task is submitted only when the destination index
\* exists.
C7_SubmitOnlyIfProvisioned ==
    \A i \in Indices : submitted[i] # "dst_absent"

\* C8: a run interrupted between the source-side removal and the
\* destination-side add (every remote call before that having succeeded),
\* then run again for that index with every remote call succeeding and
\* validation passing, ends with every alias the source index originally
\* had bound to the destination index.
C8_RerunConverges ==
    (/\ crashed = [at |-> "update_aliases", clean |-> TRUE]
     /\ pc = "finished"
     /\ clean
     /\ outcome[selection] \in {"cutover", "no_alias"})
        => origAliases[selection] \subseteq dstAliases[selection]

\* C9: when a poll observes completed = true with no failures, the polling
\* loop ends in the Completed state, the counters of that final poll are
\* reported, and validation is next.
C9_TrackerTerminal ==
    (status.completed /\ status.failures = 0) =>
        /\ pc = "compare_doc_counts"
        /\ reported = status.created

\* C10: the destination index is created at most once, and an invocation
\* of create_index_if_no_template for an index an earlier invocation
\* created returns normally and leaves the destination index's existence,
\* mappings, aliases and documents as they were.
C10_ProvisionIdempotent ==
    /\ [](\A i \in Indices : creates[i] <= 1)
    /\ [][(pc = "create_index_if_no_template" /\ creates[Cur] = 1)
            => (/\ pc' = "reindex"
                /\ creates' = creates
                /\ UNCHANGED destination)]_vars

\* C10 witness: a second invocation for an index the first invocation
\* created, with aliases put on it, has returned.
C10_Witness ==
    \E i \in Indices :
        /\ provCalls[i] = 2
        /\ creates[i] = 1
        /\ dstAliases[i] # {}
        /\ pc = "reindex"


\* C11: the destination-side add of a cutover is one update_aliases step
\* carrying an add action for every alias of the list: the step returns
\* normally and leaves the aliases of the destination index either with
\* all of the list added (request succeeded) or as they were before the
\* request (request failed, absorbed); no other destination index changes.
C11_AtomicAdd ==
    [][pc = "update_aliases" =>
         /\ pc' = "return"
         /\ \/ /\ outcome'[Cur] = "cutover"
               /\ dstAliases' = [dstAliases EXCEPT ![Cur] = @ \cup src_aliases]
            \/ /\ outcome'[Cur] = "add_failed"
               /\ dstAliases' = dstAliases]_vars

\* C11 witness: the request for a list of two aliases, none of them bound
\* to the destination index before, failed and was absorbed: none is bound.
C11_Witness ==
    /\ pc = "return"
    /\ outcome[Cur] = "add_failed"
    /\ Cardinality(src_aliases) >= 2
    /\ src_aliases \cap dstAliases[Cur] = {}


\* C12: in the snapshot run a failing trigger_snapshot or restore_snapshot
\* ends the whole batch.  The step of a failing call (the one that clears
\* clean in a run without an earlier error) leads to the end of main; after a failing trigger_snapshot the
\* destination is as it was, so no restore was issued; at that end no index
\* has been validated or cut over and no source alias has been removed, and
\* nothing runs afterwards.
C12_SnapshotErrorsFatal ==
    /\ [][(pc = "trigger_snapshot" /\ clean /\ ~clean') =>
             (pc' = "aborted" /\ UNCHANGED destination)]_vars
    /\ [][(pc = "restore_snapshot" /\ clean /\ ~clean') =>
             pc' = "aborted"]_vars
    /\ [](pc = "aborted" =>
             \A i \in Indices :
                /\ docCountOk[i] = "none" /\ mappingOk[i] = "none"
                /\ outcome[i] = "pending"
                /\ srcAliases[i] = origAliases[i])
    /\ [][pc # "aborted"]_vars

\* C12 witness: the batch ended on a failing call although an index with
\* aliases had been selected.
C12_Witness ==
    /\ mode = "snapshot"
    /\ pc = "aborted"
    /\ \E k \in 1..Len(indices) : srcAliases[indices[k]] # {}


\* The positions of the catalog rows whose name does not begin with ".".
UserRows == {k \in 1..Len(catalog) : catalog[k][1] # "."}

\* seq is made of the rows of the catalog at the positions of rows, each
\* once, in catalog order.
IsListingOf(seq, rows) ==
    /\ Len(seq) = Cardinality(rows)
    /\ \E f \in [1..Len(seq) -> rows] :
          /\ \A j, k \in 1..Len(seq) : j < k => f[j] < f[k]
          /\ \A k \in 1..Len(seq) : seq[k] = catalog[f[k]]

\* C13: when the catalog query succeeds, list_indices returns exactly the
\* catalog names that do not begin with ".", in catalog order.
C13_ListIndices ==
    (pc = "list_indices" /\ clean) => IsListingOf(indices, UserRows)

\* C13 witness: a catalog of a system index followed by a user index, of
\* which list_indices returned the user index alone.
C13_Witness ==
    /\ pc = "list_indices" /\ clean
    /\ Len(catalog) = 2
    /\ catalog[1][1] = "." /\ catalog[2][1] # "."
    /\ indices = <<catalog[2]>>


\* C15: list_indices_by_regex returns the elements of list_indices (same
\* order) whose name has, at some offset, a run of characters the pattern
\* matches; list_specific_index returns the elements equal to the name: at
\* most one, and none when the name begins with ".", system index or not.
C15_RegexAndSpecific ==
    /\ (pc = "list_indices_by_regex" /\ clean) =>
          IsListingOf(indices,
             {k \in UserRows :
                \E from \in 1..(Len(catalog[k]) + 1) :
                   LET run == SubSeq(catalog[k], from, from + Len(regex) - 1)
                   IN /\ from + Len(regex) - 1 <= Len(catalog[k])
                      /\ \A n \in 1..Len(regex) :
                            \/ regex[n] = "."
                            \/ regex[n] = "\\." /\ run[n] = "."
                            \/ regex[n] = run[n]})
    /\ (pc = "list_specific_index" /\ clean) =>
          /\ IsListingOf(indices, {k \in UserRows : catalog[k] = selection})
          /\ Len(indices) <= 1
          /\ selection[1] = "." => indices = <<>>

\* C15 witness: a pattern found only past the first character of a name.
C15_Witness ==
    /\ pc = "list_indices_by_regex" /\ clean
    /\ regex = <<"\\.">>
    /\ indices = << <<"a", ".">> >>


\* Neither cluster has been written to and nothing has been submitted.
Untouched ==
    /\ migrated = 0
    /\ srcAliases = origAliases
    /\ \A i \in Indices :
          /\ ~dstExists[i] /\ dstAliases[i] = {} /\ dstCount[i] = 0
          /\ provCalls[i] = 0 /\ creates[i] = 0 /\ submitted[i] = "no"
          /\ outcome[i] = "pending"

\* C14: when the catalog query of the discovery fails, whichever listing
\* function the command line selects returns the empty list without
\* raising and main ends there: nothing runs afterwards, and neither
\* cluster has been changed.
C14_FailedDiscoveryMutatesNothing ==
    /\ [][(pc = "discover" /\ ~clean') =>
             (indices' = <<>> /\ pc' = "exited")]_vars
    /\ [](pc = "exited" => Untouched)
    /\ [][pc # "exited"]_vars

\* C14 witness: a run asked for an index by name ended on a failing catalog
\* query.
C14_Witness ==
    /\ pc = "exited" /\ ~clean
    /\ selection # <<>>
    /\ \E k \in 1..Len(catalog) : catalog[k] = selection


\* C16: in the snapshot run the destination name main uses for validation
\* and cutover, the rename rule applied by re.sub to the source name, is
\* the name under which the index was restored; it is "new_" followed by
\* the source name, and distinct source names give distinct names.
C16_RenameAgrees ==
    /\ \A i \in Indices :
          /\ new_index(i) = <<"n", "e", "w", "_">> \o i
          /\ restoredAs[i] # <<>> => restoredAs[i] = new_index(i)
    /\ \A i, j \in Indices : new_index(i) = new_index(j) => i = j


\* The order in which the calls of one index's remote-reindex pipeline
\* follow each other ("return" ends the pipeline of the index).
PipelineOrder ==
    { <<"create_index_if_no_template", "reindex">>,
      <<"reindex", "tasks_get">>,
      <<"tasks_get", "tasks_get">>,
      <<"tasks_get", "compare_doc_counts">>,
      <<"compare_doc_counts", "compare_mappings">>,
      <<"compare_mappings", "get_alias">>,
      <<"get_alias", "delete_alias">>,
      <<"delete_alias", "update_aliases">> }

PipelineCalls == {o[1] : o \in PipelineOrder}

\* C17: the calls of one index's remote-reindex pipeline are strictly
\* ordered.  One call is in progress at a time and each is followed by the
\* next of the order or by the end of the pipeline; the transfer is
\* submitted after create-index has returned, polled after it was
\* submitted, the count check starts after a poll observed completed = true,
\* the mapping check after the count check returned, and the first
\* source-side alias removal after both checks returned.
C17_PipelineOrder ==
    /\ [][(pc \in PipelineCalls /\ pc' # pc) =>
             (<<pc, pc'>> \in PipelineOrder \/ pc' \in {"return", "raised"})]_vars
    /\ [](pc = "reindex" => provCalls[Cur] >= 1 /\ submitted[Cur] = "no")
    /\ [](pc = "tasks_get" => submitted[Cur] # "no" /\ docCountOk[Cur] = "none")
    /\ [](pc = "compare_doc_counts" =>
             status.completed /\ docCountOk[Cur] = "none" /\ mappingOk[Cur] = "none")
    /\ [](pc = "compare_mappings" =>
             docCountOk[Cur] # "none" /\ mappingOk[Cur] = "none")
    /\ [](pc \in {"get_alias", "delete_alias", "update_aliases"} =>
             docCountOk[Cur] # "none" /\ mappingOk[Cur] # "none")
    /\ [](pc \in PipelineCalls \ {"delete_alias", "update_aliases"} =>
             srcAliases[Cur] = origAliases[Cur])

\* C17 witness: an index's pipeline has come to the add of the cutover,
\* after the removal of source aliases, through every call of the order.
C17_Witness ==
    /\ pc = "update_aliases"
    /\ submitted[Cur] = "dst_present"
    /\ docCountOk[Cur] = "pass" /\ mappingOk[Cur] = "pass"
    /\ srcAliases[Cur] # origAliases[Cur]


\* The pipeline of index i has ended after its transfer completed with a
\* non-empty failure list.
EndedWarned(i) == warned /\ pc = "return" /\ Cur = i

\* C18 (as stated): a transfer that completed with failures is followed by
\* both validation checks, and the cutover of the index runs if and only if
\* both passed and the source index has an alias.
C18_BothChecksThenIff ==
    \A i \in Indices :
       EndedWarned(i) =>
          /\ docCountOk[i] # "none" /\ mappingOk[i] # "none"
          /\ CutoverRan(i) <=> (Validated(i) /\ origAliases[i] # {})

\* C18 (amended): a transfer that completed with failures is followed by
\* the count check, and by the mapping check exactly when the count check
\* passed; the cutover runs only if both passed and the source index has an
\* alias, and a pipeline whose checks both passed ends without cutover only
\* because the index has no alias or because reading its aliases failed.
C18_GatedAfterFailures ==
    \A i \in Indices :
       EndedWarned(i) =>
          /\ docCountOk[i] # "none"
          /\ mappingOk[i] # "none" <=> docCountOk[i] = "pass"
          /\ CutoverRan(i) => (Validated(i) /\ origAliases[i] # {})
          /\ Validated(i) =>
                /\ outcome[i] \in {"cutover", "add_failed", "no_alias", "error"}
                /\ outcome[i] = "no_alias" => origAliases[i] = {}
                /\ origAliases[i] = {} => outcome[i] \in {"no_alias", "error"}
          /\ ~Validated(i) => outcome[i] \in {"count_mismatch", "mapping_mismatch"}

\* C18 witness: a transfer that completed with failures but lost no
\* document passed both checks and its index was cut over.
C18_Witness ==
    \E i \in Indices :
       /\ EndedWarned(i)
       /\ Validated(i)
       /\ outcome[i] = "cutover"
       /\ origAliases[i] \subseteq dstAliases[i]


\* C19: the polling loop does not go on forever (within the model every
\* task reports completed = true after at most MaxPolls polls that found it
\* running), and from the loop and from every call after it the pipeline
\* of the index comes to its end with an outcome: cutover done, validation
\* failed or error.
C19_TrackerTerminates ==
    /\ (pc \in {"tasks_get", "compare_doc_counts", "compare_mappings",
                "get_alias", "delete_alias", "update_aliases"}) ~> (pc = "return")
    /\ [](pc = "return" => outcome[Cur] # "pending")

\* C19 witness: the task was found running MaxPolls times, then completed,
\* and the pipeline has gone on to validation.
C19_Witness ==
    /\ pc = "compare_doc_counts"
    /\ status.completed
    /\ polls = MaxPolls

\* C20: a poll that finds the task running never ends the tracker: it
\* leaves the pipeline in the polling loop with no outcome and nothing of
\* the destination changed; and after any number of such polls (below the
\* bound of the model) one more poll of a running task can follow.
C20_NeverGivesUp ==
    /\ [][(pc = "tasks_get" /\ polls' = polls + 1) =>
             /\ pc' = "tasks_get"
             /\ ~status'.completed
             /\ UNCHANGED <<outcome, destination, srcAliases>>]_vars
    /\ []((pc = "tasks_get" /\ polls < MaxPolls) =>
             ENABLED (tasks_get /\ polls' = polls + 1))

\* C20 witness: MaxPolls consecutive polls have found the task running and
\* the tracker is about to poll again.
C20_Witness ==
    /\ pc = "tasks_get"
    /\ polls = MaxPolls
    /\ ~status.completed
    /\ outcome[Cur] = "pending"


\* C21: a reindex or tasks.get call that raises is not taken for the
\* completion of the transfer: the step ends the pipeline of the index
\* with the error outcome, with no validation result, the destination and
\* the source aliases as they were; and main goes on from there to the
\* next index of the list.
C21_TransportFailureIsNotCompletion ==
    /\ [][(pc \in {"reindex", "tasks_get"} /\ ~status'.completed
              /\ pc' # "tasks_get") =>
             /\ pc' = "return"
             /\ outcome'[Cur] = "error"
             /\ docCountOk'[Cur] = "none" /\ mappingOk'[Cur] = "none"
             /\ UNCHANGED <<destination, srcAliases>>]_vars
    /\ [][(pc = "return" /\ cur < Len(indices)) =>
             (cur' = cur + 1 /\ pc' = "create_index_if_no_template")]_vars
    /\ [](pc = "return" => ENABLED main_loop)

\* C21 witness: a poll raised after an earlier poll had found the task
\* running, and another index is still to be migrated.
C21_Witness ==
    /\ pc = "return"
    /\ outcome[Cur] = "error"
    /\ polls >= 1
    /\ docCountOk[Cur] = "none"
    /\ cur < Len(indices)


\* create_index_if_no_template has returned or raised for the current
\* index after the schema reads it made (get_index_template; get_settings
\* and get_mapping on the copy path) had succeeded.
ProvisionedAfterReads ==
    /\ pc \in {"reindex", "raised"}
    /\ provision.tpl # -1
    /\ ~(provision.tpl = 0 /\ provision.creates = 0)

\* The templates with a pattern matching the index that no earlier
\* template of the list precedes with one.
FirstMatching(i) ==
    {k \in 1..Len(templates) :
        /\ \E pat \in templates[k].index_patterns : fnmatch(i, pat)
        /\ \A j \in 1..(k - 1) :
              \A pat \in templates[j].index_patterns : ~fnmatch(i, pat)}

\* C22: whatever the templates and the index, provisioning issues exactly
\* one create call, with the mappings and aliases of the first matching
\* template; it copies the live index exactly when no template matches, and
\* only then puts aliases, after its create call succeeded.
C22_SchemaSource ==
    ProvisionedAfterReads =>
       /\ provision.creates = 1
       /\ FirstMatching(Cur) = {} <=> provision.tpl = 0
       /\ \A k \in FirstMatching(Cur) :
             /\ provision.tpl = k
             /\ provision.body.mappings = templates[k].mappings
             /\ provision.body.aliases = templates[k].aliases
       /\ provision.tpl = 0 => provision.body.mappings = srcMappings(Cur)
       /\ provision.tpl # 0 => provision.puts = {}
       /\ provision.puts # {} => creates[Cur] = 1


\* The settings keys of the schema source provisioning chose: the live
\* index or the template.
ChosenSettings ==
    IF provision.tpl = 0 THEN srcSettings[Cur]
    ELSE templates[provision.tpl].settings

\* C23 (as stated): the settings of every create call are those of the
\* chosen source without the keys version, uuid and provided_name, every
\* other key kept.
C23_StripsNamedKeys ==
    (pc = "reindex" /\ provision.creates = 1) =>
       provision.body.settings = ChosenSettings \ {VERSION, UUID, PROVIDED_NAME}

\* C23 (amended): the settings of every create call are those of the
\* chosen source without the keys that begin with version, uuid or
\* provided_name (the three keys themselves and keys such as
\* version.created), every other key kept.
C23_StripsPrefixedKeys ==
    (pc = "reindex" /\ provision.creates = 1) =>
       /\ provision.body.settings \subseteq ChosenSettings
       /\ \A k \in ChosenSettings :
             k \in provision.body.settings <=>
                \A p \in {VERSION, UUID, PROVIDED_NAME} :
                   \A n \in 0..Len(k) : SubSeq(k, 1, n) # p

\* C23 witness: a create call whose source had every key: only the ordinary
\* setting was sent.
C23_Witness ==
    /\ pc = "reindex" /\ provision.creates = 1
    /\ ChosenSettings = SettingKeys
    /\ provision.body.settings = {CODEC}


\* A second invocation of the cutover is running or has returned, after a
\* first one that logged no error.
SecondAfterSuccess ==
    /\ first.called /\ first.ok
    /\ pc \in {"delete_alias", "update_aliases", "return"}

\* C24: a second invocation of migrate_alias_between_clusters with the
\* same arguments, after a first one that succeeded, can run without any
\* error (an alias not found on the source is not one), never raises, and
\* at each of its steps the aliases of the source index and of the
\* destination index are those the first invocation left.
C24_CutoverIdempotent ==
    /\ [](SecondAfterSuccess =>
             /\ srcAliases[Cur] = first.src
             /\ dstAliases[Cur] = first.dst)
    /\ []((SecondAfterSuccess /\ pc = "delete_alias") =>
             ENABLED (delete_alias /\ removeFailed' = {}))
    /\ [][(first.called /\ pc \in {"delete_alias", "update_aliases"}) =>
             pc' \in {"update_aliases", "return"}]_vars

\* C24 witness: the second invocation has returned after adding again the
\* two aliases the first one had moved.
C24_Witness ==
    /\ SecondAfterSuccess
    /\ pc = "return"
    /\ outcome[Cur] = "cutover"
    /\ removeFailed = {}
    /\ Cardinality(src_aliases) >= 2
    /\ first.dst = src_aliases


\* C25: when the run has finished and every pipeline has completed its
\* cutover, every alias name is bound to at most one index of the
\* destination cluster.
C25_AliasOnOneIndex ==
    (/\ pc = "finished"
     /\ \A k \in 1..Len(indices) : outcome[indices[k]] = "cutover")
    => \A a \in Aliases :
          Cardinality({i \in Indices : a \in dstAliases[i]}) <= 1


\* A query of the validator fails in this step: the run had seen no error
\* and has seen one after it.
ValidationQueryFails ==
    /\ pc \in {"compare_doc_counts", "compare_mappings"}
    /\ clean /\ ~clean'

\* C26: when the count query or the mapping query fails, the comparison
\* returns False to migrate_index (its verdict is "fail", nothing is
\* raised and the pipeline returns without reaching the cutover), and the
\* aliases of an index with a failed comparison stay on the source index.
C26_FailsClosed ==
    /\ [][ValidationQueryFails =>
             /\ pc' = "return"
             /\ (pc = "compare_doc_counts" => docCountOk'[Cur] = "fail")
             /\ (pc = "compare_mappings" => mappingOk'[Cur] = "fail")]_vars
    /\ [](\A i \in Indices :
             (docCountOk[i] = "fail" \/ mappingOk[i] = "fail") =>
                /\ outcome[i] \notin {"cutover", "add_failed"}
                /\ srcAliases[i] = origAliases[i])

\* C26 witness: the mapping query failed for an index whose mappings are
\* the same on both clusters and whose source index carries aliases.
C26_Witness ==
    /\ pc = "return"
    /\ docCountOk[Cur] = "pass"
    /\ mappingOk[Cur] = "fail"
    /\ srcMappings(Cur) = dstMappings[Cur]
    /\ srcAliases[Cur] # {}


\* The reindex task of index i has been submitted, no poll of its pipeline
\* went on to the validation, and the pipeline has no outcome yet.
Tracked(i) ==
    /\ submitted[i] # "no"
    /\ docCountOk[i] = "none"
    /\ outcome[i] = "pending"

\* C27: the pipelines of a remote-reindex run do not interleave: every
\* index before the current one has its terminal outcome, no index after
\* the current one has had its task submitted, and at most one submitted
\* task is being waited on.
C27_NoInterleaving ==
    /\ \A k \in 1..Len(indices) :
          /\ k < cur => outcome[indices[k]] # "pending"
          /\ k > cur => /\ submitted[indices[k]] = "no"
                        /\ outcome[indices[k]] = "pending"
    /\ Cardinality({i \in Indices : Tracked(i)}) <= 1
    /\ \A i \in Indices : Tracked(i) => (cur >= 1 /\ i = Cur)

\* C27 witness: the task of the second index is polled again, after the
\* pipeline of the first index, which had submitted a task, has ended.
C27_Witness ==
    /\ cur = 2
    /\ pc = "tasks_get"
    /\ polls >= 1
    /\ Tracked(Cur)
    /\ submitted[indices[1]] # "no"


\* No pipeline has started: nothing was provisioned or submitted and no
\* index has an outcome.
NoPipelineStarted ==
    \A i \in Indices :
       provCalls[i] = 0 /\ submitted[i] = "no" /\ outcome[i] = "pending"

\* C28: the migrators are called only after a discovery that returned an
\* index; they are called one after the other, each once, and all twelve
\* have returned before the first pipeline starts; a migrator whose calls
\* fail does not end main, which goes on to the next migrator and to the
\* pipelines.
C28_MigratorsIsolated ==
    /\ [](indices = <<>> => migrated = 0)
    /\ [](pc = "exited" => indices = <<>>)
    /\ [](pc = "migrators" =>
             /\ indices # <<>>
             /\ migrated < NumMigrators
             /\ NoPipelineStarted)
    /\ [](pc \notin {"discover", "migrators", "exited"} =>
             migrated = NumMigrators /\ indices # <<>>)
    /\ [][migrated' = migrated \/ migrated' = migrated + 1]_vars
    /\ [](pc = "migrators" =>
             ENABLED (cluster_migrations /\ ~clean' /\ pc' # "exited"))

\* C28 witness: the first pipeline is about to start after the twelve
\* migrators have returned, and one of them had failed.
C28_Witness ==
    /\ pc = FirstStage
    /\ cur = 1
    /\ migrated = NumMigrators
    /\ ~clean
    /\ NoPipelineStarted

====
